---- MODULE Spec2Model ----
(***************************************************************************)
(* Model of opmd2VTK/pyvtk.py: class Opmd2VTK with its two public methods  *)
(* write_fields_vtk and write_species_vtk and the two mesh builders        *)
(* _get_mesh_3d and _get_mesh_circ.                                        *)
(*                                                                         *)
(* Python values are encoded as follows.                                   *)
(*   - an optional value is a tuple: None is <<>>, a value v is <<v>>;     *)
(*   - a string that the code indexes (istr) is a tuple of one-character   *)
(*     strings, any other string is a TLA+ string;                         *)
(*   - a file name is the tuple of the pieces the code concatenates        *)
(*     (relative to self.path);                                            *)
(*   - the instance dictionary of self is a function from attribute names  *)
(*     to values, which grows when a method sets a new attribute;          *)
(*   - a raised exception is the name of its class in the field err of     *)
(*     the frame of the running call ("ok" while nothing was raised).      *)
(* The converters of the base class opmd2VTKGeneric (.generic) are not     *)
(* part of pyvtk.py; they are modelled from the specification.             *)
(***************************************************************************)
EXTENDS Integers, Sequences, FiniteSets, TLC

VARIABLES
  self,      \* instance attributes of the converter
  geom,      \* geometry of the data the reader self.ts exposes
  written,   \* files handed to tofile by the last call, in order
  err,       \* outcome of the last call: "ok" or the exception raised
  call       \* the last call: method, resolved list, ghost mesh history
             \* (cached: self.grid held a mesh on entry; built: the mesh
             \* builders the call invoked)

vars == <<self, geom, written, err, call>>

None == <<>>
Some(v) == <<v>>
IsNone(o) == o = <<>>
Val(o) == o[1]

(***************************************************************************)
(* Bounds of the explored inputs                                           *)
(***************************************************************************)
MaxFlds == 2
MaxSpecies == 2
MaxScalars == 2
MaxSmallIter == 40

(***************************************************************************)
(* The reader self.ts (external collaborator, synthetic data)              *)
(***************************************************************************)
FieldNames == {"E", "rho", "T", "J"}
fields_metadata ==
  [E |-> [type |-> "vector"], T |-> [type |-> "tensor"], rho |-> [type |-> "scalar"]]
avail_fields == <<"E", "T", "rho">>
Geometries == {"3dcartesian", "thetaMode"}

ReaderDimensions == <<2, 2, 2>>
ReaderOrigin == <<0, 0, 0>>
ReaderResolutions == <<1, 1, 1>>
ReaderNr == 2
ReaderNz == 3

SpeciesNames == {"electrons", "muons"}
Particle(x, y, z, ux, uy, uz, w) ==
  [x |-> x, y |-> y, z |-> z, ux |-> ux, uy |-> uy, uz |-> uz, w |-> w]
species_data ==
  [electrons |-> << Particle(0, 0, 0, 10, 11, 12, 1), Particle(1, 0, 1, 20, 21, 22, 2) >>,
   ions      |-> << Particle(0, 1, 1, 30, 31, 32, 3) >>]
avail_species == <<"electrons", "ions">>
Quantities == {"ux", "id"}
RetrievableQuantities == {"x", "y", "z", "ux", "uy", "uz", "w"}

(***************************************************************************)
(* Name resolution of a Python function body                               *)
(***************************************************************************)
ModuleGlobals ==
  [vtk |-> "module", np |-> "module", os |-> "module",
   opmd2VTKGeneric |-> "class", Opmd2VTK |-> "class"]

(***************************************************************************)
(* Iteration suffix: istr = str(iteration); while len(istr)<7: '0'+istr    *)
(***************************************************************************)
DigitChars == <<"0", "1", "2", "3", "4", "5", "6", "7", "8", "9">>

RECURSIVE StrNat(_)
StrNat(n) ==
  IF n < 10 THEN <<DigitChars[n + 1]>>
  ELSE Append(StrNat(n \div 10), DigitChars[(n % 10) + 1])

str(n) == IF n < 0 THEN <<"-">> \o StrNat(-n) ELSE StrNat(n)

RECURSIVE ZeroPad(_)
ZeroPad(istr) == IF Len(istr) < 7 THEN ZeroPad(<<"0">> \o istr) ELSE istr

\* variant: the padding loop left out
IstrUnpadded(iteration) == str(iteration)

Istr(iteration) == ZeroPad(str(iteration))

\* int(s) of Python for a string of digits; None where int raises ValueError
DigitValue(c) == (CHOOSE d \in 1..10 : DigitChars[d] = c) - 1
IsDigit(c) == \E d \in 1..10 : DigitChars[d] = c

RECURSIVE IntDigits(_)
IntDigits(s) ==
  IF Len(s) = 0 THEN 0
  ELSE 10 * IntDigits(SubSeq(s, 1, Len(s) - 1)) + DigitValue(s[Len(s)])

int(s) ==
  IF Len(s) > 0 /\ \A i \in 1..Len(s) : IsDigit(s[i]) THEN Some(IntDigits(s))
  ELSE IF Len(s) > 1 /\ s[1] = "-" /\ \A i \in 2..Len(s) : IsDigit(s[i])
       THEN Some(0 - IntDigits(SubSeq(s, 2, Len(s))))
       ELSE None

(***************************************************************************)
(* Mesh builders                                                           *)
(***************************************************************************)
\* self.grid = vtk.StructuredPoints(self.dimensions, origin, resolutions)
_get_mesh_3d(slf, origin, resolutions) ==
  [slf |-> [slf EXCEPT !.grid =
              Some([cls |-> "StructuredPoints", dimensions |-> slf.dimensions,
                    origin |-> origin, resolutions |-> resolutions])],
   err |-> "ok"]

\* self.grid = vtk.StructuredGrid(dimensions=(self.Nth+1, Nr, Nz), points=points)
\* Nr and Nz are neither parameters, locals nor module globals.
_get_mesh_circ(slf, dimensions, points) ==
  LET locals == {"self", "dimensions", "points"}
      bound(name) == name \in locals \/ name \in DOMAIN ModuleGlobals
  IN  IF bound("vtk") /\ bound("self") /\ bound("Nr") /\ bound("Nz") /\ bound("points")
      THEN [slf |-> [slf EXCEPT !.grid =
                       Some([cls |-> "StructuredGrid",
                             dimensions |-> <<slf.Nth + 1, ModuleGlobals["Nr"], ModuleGlobals["Nz"]>>,
                             points |-> points])],
            err |-> "ok"]
      ELSE [slf |-> slf, err |-> "NameError"]

(***************************************************************************)
(* Frame of a running call: the instance, the locals of the method, the    *)
(* files written so far, the exception raised, and two ghost fields: the   *)
(* mesh builders invoked during the call (built) and whether self.grid     *)
(* was assigned during the call (fresh).                                   *)
(***************************************************************************)
SetAttr(slf, name, v) == (name :> v) @@ slf

Frame(slf) ==
  [slf |-> slf, comp |-> None, container |-> <<>>, written |-> <<>>,
   err |-> "ok", built |-> <<>>, fresh |-> FALSE]

(***************************************************************************)
(* Converters of opmd2VTKGeneric: extract the data of a field and compute  *)
(* the mesh lazily, only while self.grid is None.                          *)
(***************************************************************************)
CircPoints(Nth) ==
  [k \in 1..(ReaderNz * ReaderNr * (Nth + 1)) |->
     << (k - 1) \div (ReaderNr * (Nth + 1)),
        ((k - 1) \div (Nth + 1)) % ReaderNr,
        (k - 1) % (Nth + 1) >>]

MeshOrigin(slf) ==
  <<ReaderOrigin[1], ReaderOrigin[2],
    IF IsNone(slf.zmin_fixed) THEN ReaderOrigin[3] ELSE Val(slf.zmin_fixed)>>

EnsureMesh(st) ==
  IF ~IsNone(st.slf.grid) THEN st
  ELSE LET r == IF geom = "thetaMode"
                THEN _get_mesh_circ(st.slf, <<ReaderNz, ReaderNr>>, CircPoints(st.slf.Nth))
                ELSE _get_mesh_3d(SetAttr(st.slf, "dimensions", ReaderDimensions),
                                  MeshOrigin(st.slf), ReaderResolutions)
           builder == IF geom = "thetaMode" THEN "_get_mesh_circ" ELSE "_get_mesh_3d"
       IN  [st EXCEPT !.slf = r.slf, !.err = r.err,
                      !.built = Append(@, builder),
                      !.fresh = (r.err = "ok")]

Extract(st, via, fld, comp, ncomp, fname) ==
  [st |-> EnsureMesh(st),
   fdata |-> [via |-> via, fld |-> fld, comp |-> comp, ncomp |-> ncomp,
              iteration |-> st.slf.iteration],
   fname |-> fname]

_convert_field_vec_full(st, fld) ==
  Extract(st, "_convert_field_vec_full", fld, None, 3, fld)

_convert_field_scl(st, fld) ==
  Extract(st, "_convert_field_scl", fld, None, 1, fld)

_convert_field_vec_comp(st, fld, comp) ==
  Extract(st, "_convert_field_vec_comp", fld, Some(comp), 1, fld \o comp)

(***************************************************************************)
(* pyvtk containers                                                        *)
(***************************************************************************)
Vectors(fdata, name) == [cls |-> "Vectors", data |-> fdata, name |-> name]
Scalars(fdata, name) == [cls |-> "Scalars", data |-> fdata, name |-> name]

\* vtk.VtkData(structure, vtk.PointData(*arrays)).tofile(file_name): the
\* constructor of VtkData rejects a structure that is not a dataset.
VtkDataToFile(st, structure, arrays, file_name) ==
  IF IsNone(structure) THEN [st EXCEPT !.err = "TypeError"]
  ELSE [st EXCEPT !.written =
          Append(@, [name |-> file_name, structure |-> Val(structure),
                     point_data |-> arrays, fresh |-> st.fresh])]

(***************************************************************************)
(* write_fields_vtk                                                        *)
(***************************************************************************)
\* variant: the parameters registered, the cached mesh kept
RegisterFieldsKeepGrid(slf, iteration, zmin_fixed, Nth, CommonMesh) ==
  ("iteration" :> iteration) @@ ("zmin_fixed" :> zmin_fixed) @@
  ("CommonMesh" :> CommonMesh) @@ ("Nth" :> Nth) @@ slf

\* lines 81-88: register the parameters and reset the cached mesh
RegisterFields(slf, iteration, zmin_fixed, Nth, CommonMesh) ==
  [(("iteration" :> iteration) @@ ("zmin_fixed" :> zmin_fixed) @@
    ("CommonMesh" :> CommonMesh) @@ ("Nth" :> Nth) @@ slf)
   EXCEPT !.grid = None]

\* variant: artifacts inserted at the front of vtk_container
CommonStepPrepend(st, fld) ==
  IF fld \notin DOMAIN fields_metadata THEN [st EXCEPT !.err = "KeyError"]
  ELSE LET field_type == fields_metadata[fld].type IN
    IF field_type = "vector" THEN
      LET r == _convert_field_vec_full(st, fld) IN
      IF r.st.err # "ok" THEN r.st
      ELSE [r.st EXCEPT !.container = <<Vectors(r.fdata, r.fname)>> \o @]
    ELSE IF field_type = "scalar" THEN
      LET r == _convert_field_scl(st, fld) IN
      IF r.st.err # "ok" THEN r.st
      ELSE [r.st EXCEPT !.container = <<Scalars(r.fdata, r.fname)>> \o @]
    ELSE st

\* lines 98-107: body of the loop of the common-mesh branch
CommonStep(st, fld) ==
  IF fld \notin DOMAIN fields_metadata THEN [st EXCEPT !.err = "KeyError"]
  ELSE LET field_type == fields_metadata[fld].type IN
    IF field_type = "vector" THEN
      LET r == _convert_field_vec_full(st, fld) IN
      IF r.st.err # "ok" THEN r.st
      ELSE [r.st EXCEPT !.container = Append(@, Vectors(r.fdata, r.fname))]
    ELSE IF field_type = "scalar" THEN
      LET r == _convert_field_scl(st, fld) IN
      IF r.st.err # "ok" THEN r.st
      ELSE [r.st EXCEPT !.container = Append(@, Scalars(r.fdata, r.fname))]
    ELSE st

RECURSIVE CommonLoop(_, _, _)
CommonLoop(st, flds, i) ==
  IF i > Len(flds) \/ st.err # "ok" THEN st
  ELSE CommonLoop(CommonStep(st, flds[i]), flds, i + 1)

\* lines 118-124: body of the loop over the components of a vector field
CompFile(st, fld, comp, istr) ==
  LET st1 == [st EXCEPT !.comp = Some(comp)]
      fld_full == fld \o comp
      file_name == <<"vtk_fields_", fld_full, "_">> \o istr
      r == _convert_field_vec_comp(st1, fld, comp)
  IN  IF r.st.err # "ok" THEN r.st
      ELSE VtkDataToFile(r.st, r.st.slf.grid, <<Scalars(r.fdata, r.fname)>>, file_name)

RECURSIVE CompLoop(_, _, _, _, _)
CompLoop(st, fld, comps, j, istr) ==
  IF j > Len(comps) \/ st.err # "ok" THEN st
  ELSE CompLoop(CompFile(st, fld, comps[j], istr), fld, comps, j + 1, istr)

\* variant: a field of unknown type raises instead of being skipped
FieldStepUnknownRaises(st, fld, istr) ==
  IF fld \notin DOMAIN fields_metadata THEN [st EXCEPT !.err = "KeyError"]
  ELSE LET field_type == fields_metadata[fld].type IN
    IF field_type = "vector" THEN
      CompLoop(st, fld, <<"x", "y", "z">>, 1, istr)
    ELSE IF field_type = "scalar" THEN
      LET file_name == <<"vtk_fields_", fld, "_">> \o istr IN
      IF IsNone(st.comp) THEN [st EXCEPT !.err = "UnboundLocalError"]
      ELSE LET r == _convert_field_vec_comp(st, fld, Val(st.comp)) IN
           IF r.st.err # "ok" THEN r.st
           ELSE VtkDataToFile(r.st, r.st.slf.grid,
                              <<Scalars(r.fdata, r.fname)>>, file_name)
    ELSE [st EXCEPT !.err = "ValueError"]

\* variant: the scalar branch extracts with _convert_field_scl(fld)
FieldStepScalarExtraction(st, fld, istr) ==
  IF fld \notin DOMAIN fields_metadata THEN [st EXCEPT !.err = "KeyError"]
  ELSE LET field_type == fields_metadata[fld].type IN
    IF field_type = "vector" THEN
      CompLoop(st, fld, <<"x", "y", "z">>, 1, istr)
    ELSE IF field_type = "scalar" THEN
      LET file_name == <<"vtk_fields_", fld, "_">> \o istr
          r == _convert_field_scl(st, fld)
      IN  IF r.st.err # "ok" THEN r.st
          ELSE VtkDataToFile(r.st, r.st.slf.grid,
                             <<Scalars(r.fdata, r.fname)>>, file_name)
    ELSE st

\* lines 114-132: body of the loop of the per-component branch
FieldStep(st, fld, istr) ==
  IF fld \notin DOMAIN fields_metadata THEN [st EXCEPT !.err = "KeyError"]
  ELSE LET field_type == fields_metadata[fld].type IN
    IF field_type = "vector" THEN
      CompLoop(st, fld, <<"x", "y", "z">>, 1, istr)
    ELSE IF field_type = "scalar" THEN
      LET file_name == <<"vtk_fields_", fld, "_">> \o istr IN
      IF IsNone(st.comp) THEN [st EXCEPT !.err = "UnboundLocalError"]
      ELSE LET r == _convert_field_vec_comp(st, fld, Val(st.comp)) IN
           IF r.st.err # "ok" THEN r.st
           ELSE VtkDataToFile(r.st, r.st.slf.grid,
                              <<Scalars(r.fdata, r.fname)>>, file_name)
    ELSE st

RECURSIVE FieldLoop(_, _, _, _)
FieldLoop(st, flds, i, istr) ==
  IF i > Len(flds) \/ st.err # "ok" THEN st
  ELSE FieldLoop(FieldStep(st, flds[i], istr), flds, i + 1, istr)

ResolveFlds(flds) == IF IsNone(flds) THEN avail_fields ELSE Val(flds)

\* the whole method: the frame when the call returns or raises
RunFields(slf, flds, iteration, zmin_fixed, Nth, CommonMesh) ==
  LET lst == ResolveFlds(flds)
      st0 == Frame(RegisterFields(slf, iteration, zmin_fixed, Nth, CommonMesh))
      istr == Istr(st0.slf.iteration)
  IN  IF st0.slf.CommonMesh
      THEN LET st1 == CommonLoop(st0, lst, 1) IN
           IF st1.err # "ok" THEN st1
           ELSE VtkDataToFile(st1, st1.slf.grid, st1.container,
                              <<"vtk_fields_">> \o istr)
      ELSE FieldLoop(st0, lst, 1, istr)

write_fields_vtk(flds, iteration, zmin_fixed, Nth, CommonMesh) ==
  LET st == RunFields(self, flds, iteration, zmin_fixed, Nth, CommonMesh) IN
  /\ self' = st.slf
  /\ written' = st.written
  /\ err' = st.err
  /\ call' = [method |-> "write_fields_vtk", list |-> ResolveFlds(flds),
              cached |-> ~IsNone(self.grid), built |-> st.built]
  /\ UNCHANGED geom

(***************************************************************************)
(* write_species_vtk                                                       *)
(***************************************************************************)
DefaultScalars == <<"ux", "uy", "uz", "w">>

\* a particle passes the selection when every selected quantity lies in its range
Selected(p, select) ==
  IsNone(select) \/
  \A q \in DOMAIN Val(select) : Val(select)[q][1] <= p[q] /\ p[q] <= Val(select)[q][2]

\* converter of opmd2VTKGeneric: positions and requested quantities of the
\* selected particles of a species
_convert_species(st, specie) ==
  IF specie \notin DOMAIN species_data \/
     \E i \in 1..Len(st.slf.scalars) : st.slf.scalars[i] \notin RetrievableQuantities
  THEN [st |-> [st EXCEPT !.err = "KeyError"], points |-> <<>>, scalars_to_add |-> <<>>]
  ELSE LET sel == SelectSeq(species_data[specie], LAMBDA p : Selected(p, st.slf.select)) IN
       [st |-> st,
        points |-> [k \in 1..Len(sel) |-> <<sel[k].x, sel[k].y, sel[k].z>>],
        scalars_to_add |->
          [i \in 1..Len(st.slf.scalars) |->
             [k \in 1..Len(sel) |-> sel[k][st.slf.scalars[i]]]]]

PolyData(points) == [cls |-> "PolyData", points |-> points]

\* lines 173-177: register the parameters
RegisterSpecies(slf, iteration, zmin_fixed, select, scalars) ==
  ("iteration" :> iteration) @@ ("zmin_fixed" :> zmin_fixed) @@
  ("select" :> select) @@ ("scalars" :> scalars) @@ slf

\* scalar.astype(self.dtype): the values keep their order and count
astype(scalar) == [k \in 1..Len(scalar) |-> [value |-> scalar[k], dtype |-> "self.dtype"]]

\* variant: every array named after the first requested quantity
SpecieStepFirstName(st, specie, istr) ==
  LET r == _convert_species(st, specie) IN
  IF r.st.err # "ok" THEN r.st
  ELSE LET pts_vtk == PolyData(r.points)
           scalars_vtk == [i \in 1..Len(r.scalars_to_add) |->
                             Scalars(astype(r.scalars_to_add[i]), r.st.slf.scalars[1])]
       IN  VtkDataToFile(r.st, Some(pts_vtk), scalars_vtk,
                         <<"vtk_specie_", specie, "_">> \o istr)

\* lines 186-199: body of the loop over the species
SpecieStep(st, specie, istr) ==
  LET r == _convert_species(st, specie) IN
  IF r.st.err # "ok" THEN r.st
  ELSE LET pts_vtk == PolyData(r.points)
           scalars_vtk == [i \in 1..Len(r.scalars_to_add) |->
                             Scalars(astype(r.scalars_to_add[i]), r.st.slf.scalars[i])]
       IN  VtkDataToFile(r.st, Some(pts_vtk), scalars_vtk,
                         <<"vtk_specie_", specie, "_">> \o istr)

RECURSIVE SpeciesLoop(_, _, _, _)
SpeciesLoop(st, species, i, istr) ==
  IF i > Len(species) \/ st.err # "ok" THEN st
  ELSE SpeciesLoop(SpecieStep(st, species[i], istr), species, i + 1, istr)

ResolveSpecies(species) == IF IsNone(species) THEN avail_species ELSE Val(species)

RunSpecies(slf, species, iteration, zmin_fixed, select, scalars) ==
  LET st0 == Frame(RegisterSpecies(slf, iteration, zmin_fixed, select, scalars))
      istr == Istr(st0.slf.iteration)
  IN  SpeciesLoop(st0, ResolveSpecies(species), 1, istr)

write_species_vtk(species, iteration, zmin_fixed, select, scalars) ==
  LET st == RunSpecies(self, species, iteration, zmin_fixed, select, scalars) IN
  /\ self' = st.slf
  /\ written' = st.written
  /\ err' = st.err
  /\ call' = [method |-> "write_species_vtk", list |-> ResolveSpecies(species),
              cached |-> ~IsNone(self.grid), built |-> st.built]
  /\ UNCHANGED geom

(***************************************************************************)
(* Inputs of the calls                                                     *)
(***************************************************************************)
SeqsUpTo(S, n) == UNION {[1..k -> S] : k \in 0..n}

Iterations == {3, 10000000}
ZminFixed == {None, Some(5)}
Nths == {2}
FldsArgs == {None} \cup {Some(l) : l \in SeqsUpTo(FieldNames, MaxFlds)}
SpeciesArgs == {None} \cup {Some(l) : l \in SeqsUpTo(SpeciesNames, MaxSpecies)}
ScalarsArgs == {DefaultScalars} \cup SeqsUpTo(Quantities, MaxScalars)
Selects == {None, Some([z |-> <<1, 1>>]), Some([z |-> <<7, 9>>])}
IstrIterations ==
  (0..MaxSmallIter) \cup
  {99, 100, 999, 1000, 9999, 10000, 99999, 100000, 123456, 999999, 1000000,
   1234567, 9999999, 10000000, 10000001, 0 - 5}

Init ==
  /\ self = [grid |-> None]
  /\ geom \in Geometries
  /\ written = <<>>
  /\ err = "ok"
  /\ call = [method |-> "__init__", list |-> <<>>, cached |-> FALSE, built |-> <<>>]

(***************************************************************************)
(* Spec: any sequence of calls, all arguments of write_fields_vtk varied   *)
(***************************************************************************)
FieldsCall ==
  \E flds \in FldsArgs, iteration \in Iterations, zmin_fixed \in ZminFixed,
     Nth \in Nths, CommonMesh \in BOOLEAN :
    write_fields_vtk(flds, iteration, zmin_fixed, Nth, CommonMesh)

SpeciesCallDefault ==
  \E iteration \in Iterations :
    write_species_vtk(None, iteration, None, None, DefaultScalars)

Next == FieldsCall \/ SpeciesCallDefault

Spec == Init /\ [][Next]_vars

(***************************************************************************)
(* SpecSpecies: any sequence of calls, the species list, the selection and *)
(* the quantities of write_species_vtk varied                              *)
(***************************************************************************)
SpeciesCall ==
  \E species \in SpeciesArgs, select \in Selects, scalars \in ScalarsArgs :
    write_species_vtk(species, 3, None, select, scalars)

FieldsCallDefault ==
  \E CommonMesh \in BOOLEAN :
    write_fields_vtk(None, 3, None, 24, CommonMesh)

NextSpecies == SpeciesCall \/ FieldsCallDefault

SpecSpecies == Init /\ [][NextSpecies]_vars

(***************************************************************************)
(* SpecIstr: any sequence of calls, the iteration number varied            *)
(***************************************************************************)
FieldsCallIter ==
  \E iteration \in IstrIterations, CommonMesh \in BOOLEAN :
    write_fields_vtk(Some(<<"E">>), iteration, None, 24, CommonMesh)

SpeciesCallIter ==
  \E iteration \in IstrIterations :
    write_species_vtk(Some(<<"electrons">>), iteration, None, None, <<"w">>)

NextIstr == FieldsCallIter \/ SpeciesCallIter

SpecIstr == Init /\ [][NextIstr]_vars

(***************************************************************************)
(* Vocabulary of the properties                                            *)
(***************************************************************************)
LastFields == call.method = "write_fields_vtk"
LastSpecies == call.method = "write_species_vtk"
TypeOf(fld) == IF fld \in DOMAIN fields_metadata THEN fields_metadata[fld].type ELSE "absent"
Supported(fld) == TypeOf(fld) \in {"scalar", "vector"}
Names(files) == [k \in 1..Len(files) |-> files[k].name]

RECURSIVE Flatten(_)
Flatten(ss) == IF Len(ss) = 0 THEN <<>> ELSE Head(ss) \o Flatten(Tail(ss))

\* the file names the per-component mode is to write for one field
ComponentNames(fld, iter7) ==
  IF TypeOf(fld) = "vector"
  THEN << <<"vtk_fields_", fld \o "x", "_">> \o iter7,
          <<"vtk_fields_", fld \o "y", "_">> \o iter7,
          <<"vtk_fields_", fld \o "z", "_">> \o iter7 >>
  ELSE << <<"vtk_fields_", fld, "_">> \o iter7 >>

\* C1: in per-component mode a call on a list of scalar and vector fields
\* (here over Cartesian data) completes and writes one file per scalar field
\* and the x, y and z files of every vector field, in list order.
C1_PerComponentFiles ==
  (LastFields /\ ~self.CommonMesh /\ geom = "3dcartesian"
     /\ \A i \in 1..Len(call.list) : Supported(call.list[i]))
  => /\ err = "ok"
     /\ Names(written) =
          Flatten([i \in 1..Len(call.list) |->
                     ComponentNames(call.list[i], Istr(self.iteration))])

\* C2: a completed call in common-mesh mode writes exactly one file, named
\* vtk_fields_<iter7>, holding one artifact per listed scalar or vector
\* field, in list order, over the one mesh computed by the call.
C2_CommonMeshOneFile ==
  (LastFields /\ self.CommonMesh /\ err = "ok")
  => LET sup == SelectSeq(call.list, Supported) IN
     /\ Len(written) = 1
     /\ written[1].name = <<"vtk_fields_">> \o Istr(self.iteration)
     /\ Len(written[1].point_data) = Len(sup)
     /\ \A k \in 1..Len(sup) :
          /\ written[1].point_data[k].data.fld = sup[k]
          /\ written[1].point_data[k].name = sup[k]
          /\ written[1].point_data[k].cls =
               (IF TypeOf(sup[k]) = "vector" THEN "Vectors" ELSE "Scalars")
     /\ Len(call.built) = 1
     /\ Some(written[1].structure) = self.grid

C2_Witness ==
  /\ LastFields /\ self.CommonMesh /\ err = "ok"
  /\ Len(call.list) = 2 /\ call.list[1] # call.list[2]
  /\ Len(written) = 1 /\ Len(written[1].point_data) = 2

\* C3: write_fields_vtk invalidates the cached mesh on entry: whatever calls
\* came before, the mesh of every file the call writes was computed during
\* the call, from the parameters of the call, and the call computes at most
\* one mesh.
C3_MeshRecomputedEachCall ==
  LastFields
  => /\ Len(call.built) <= 1
     /\ \A k \in 1..Len(written) :
          /\ written[k].fresh
          /\ written[k].structure.origin = MeshOrigin(self)

C3_Witness ==
  /\ LastFields /\ call.cached /\ err = "ok"
  /\ Len(written) > 1
  /\ ~IsNone(self.zmin_fixed)

\* C4: a call of write_fields_vtk (here in per-component mode over Cartesian
\* data) either completes, or aborts with the reader's error of a field
\* absent from the metadata.
C4_CompletesOrReaderError ==
  (LastFields /\ ~self.CommonMesh /\ geom = "3dcartesian")
  => \/ err = "ok"
     \/ /\ err = "KeyError"
        /\ \E i \in 1..Len(call.list) : TypeOf(call.list[i]) = "absent"

\* C5: a field whose type is neither scalar nor vector is skipped: no file
\* and no artifact carries it, and the files and the outcome of the call are
\* those of the same call on the list without the fields of unknown type.
KnownType(fld) == TypeOf(fld) \in {"scalar", "vector", "absent"}

C5_UnknownTypeSkipped ==
  LastFields
  => LET without == SelectSeq(call.list, KnownType)
         ref == RunFields(self, Some(without), self.iteration, self.zmin_fixed,
                          self.Nth, self.CommonMesh)
     IN  /\ written = ref.written
         /\ err = ref.err
         /\ \A k \in 1..Len(written) : \A a \in 1..Len(written[k].point_data) :
              KnownType(written[k].point_data[a].data.fld)

C5_Witness ==
  /\ LastFields /\ err = "ok" /\ Len(written) > 0
  /\ Len(call.list) = 2 /\ TypeOf(call.list[1]) = "tensor"
  /\ Supported(call.list[2])

\* C6: every artifact of the common-mesh file and every artifact written for
\* a scalar field in per-component mode is built with the extraction of the
\* type of its field: a Scalars artifact from _convert_field_scl for a
\* scalar field, a Vectors artifact from _convert_field_vec_full for a
\* vector field.
C6_ExtractionMatchesTag ==
  LastFields
  => \A k \in 1..Len(written) : \A a \in 1..Len(written[k].point_data) :
       LET art == written[k].point_data[a] IN
       /\ TypeOf(art.data.fld) = "scalar"
            => /\ art.cls = "Scalars" /\ art.data.ncomp = 1
               /\ art.data.via = "_convert_field_scl"
       /\ (TypeOf(art.data.fld) = "vector" /\ self.CommonMesh)
            => /\ art.cls = "Vectors" /\ art.data.ncomp = 3
               /\ art.data.via = "_convert_field_vec_full"

\* the suffix of a file name: what follows 'vtk_fields_' in common-mesh mode
\* and what follows the second '_' piece otherwise
Suffix(name) ==
  IF Len(name) >= 3 /\ name[3] = "_" THEN SubSeq(name, 4, Len(name))
  ELSE SubSeq(name, 2, Len(name))

\* C7: for 0 <= iteration < 10,000,000 the iteration suffix of every file
\* name written by write_fields_vtk or write_species_vtk has exactly 7
\* characters and int(suffix) is the iteration.
C7_SuffixSevenCharsRoundTrip ==
  ("iteration" \in DOMAIN self
     /\ 0 <= self.iteration /\ self.iteration < 10000000)
  => \A k \in 1..Len(written) :
       /\ Len(Suffix(written[k].name)) = 7
       /\ int(Suffix(written[k].name)) = Some(self.iteration)

C7_Witness ==
  /\ "iteration" \in DOMAIN self /\ self.iteration = 1000
  /\ LastSpecies /\ Len(written) = 1

\* C8: a completed call of write_species_vtk writes one file per listed
\* species, named vtk_specie_<species>_<iter7>; its points are the positions
\* of the selected particles of the species and its i-th array carries the
\* i-th requested quantity of these particles under the i-th requested
\* name, also when no particle is selected.
SelectedOf(specie) ==
  SelectSeq(species_data[specie], LAMBDA p : Selected(p, self.select))

C8_OneFilePerSpecies ==
  (LastSpecies /\ err = "ok")
  => /\ Len(written) = Len(call.list)
     /\ \A i \in 1..Len(call.list) :
          LET f == written[i]
              sel == SelectedOf(call.list[i])
          IN  /\ f.name = <<"vtk_specie_", call.list[i], "_">> \o Istr(self.iteration)
              /\ f.structure.cls = "PolyData"
              /\ f.structure.points = [k \in 1..Len(sel) |-> <<sel[k].x, sel[k].y, sel[k].z>>]
              /\ Len(f.point_data) = Len(self.scalars)
              /\ \A j \in 1..Len(self.scalars) :
                   /\ f.point_data[j].cls = "Scalars"
                   /\ f.point_data[j].name = self.scalars[j]
                   /\ Len(f.point_data[j].data) = Len(sel)
                   /\ \A k \in 1..Len(sel) :
                        f.point_data[j].data[k].value = sel[k][self.scalars[j]]

C8_Witness ==
  /\ LastSpecies /\ err = "ok" /\ Len(written) = 2
  /\ Len(written[1].structure.points) = 0
  /\ self.scalars = DefaultScalars /\ Len(written[1].point_data) = 4

\* C9: once _get_mesh_circ has been invoked, the cached mesh is a structured
\* grid with Nth+1 azimuthal samples and Nz * Nr * (Nth + 1) points.
C9_CircMeshPointCount ==
  (\E b \in 1..Len(call.built) : call.built[b] = "_get_mesh_circ")
  => /\ ~IsNone(self.grid)
     /\ Val(self.grid).cls = "StructuredGrid"
     /\ Val(self.grid).dimensions[1] = self.Nth + 1
     /\ Len(Val(self.grid).points) = ReaderNz * ReaderNr * (self.Nth + 1)

\* C10: in per-component mode the file of a scalar field carries data
\* extracted by _convert_field_vec_comp with the component left by the loop
\* over the components of a vector field earlier in the list ('z'); a
\* scalar field that no vector field precedes gets no file, the call
\* aborts at it.
VectorBefore(list, i) == \E j \in 1..(i - 1) : TypeOf(list[j]) = "vector"

C10_ScalarUsesLeftoverComponent ==
  (LastFields /\ ~self.CommonMesh)
  => /\ \A k \in 1..Len(written) :
          LET fld == written[k].point_data[1].data.fld IN
          TypeOf(fld) = "scalar"
          => /\ written[k].point_data[1].data.via = "_convert_field_vec_comp"
             /\ written[k].point_data[1].data.comp = Some("z")
             /\ \E i \in 1..Len(call.list) :
                  call.list[i] = fld /\ VectorBefore(call.list, i)
     /\ \A i \in 1..Len(call.list) :
          (/\ TypeOf(call.list[i]) = "scalar"
           /\ \A j \in 1..(i - 1) : TypeOf(call.list[j]) \in {"scalar", "tensor"})
          => /\ err = "UnboundLocalError"
             /\ written = <<>>

C10_Witness ==
  /\ LastFields /\ ~self.CommonMesh /\ err = "ok"
  /\ call.list = <<"E", "rho">>
  /\ Len(written) = 4
  /\ written[4].point_data[1].data.fld = "rho"

====
